---- MODULE Spec2Model ----
(***************************************************************************)
(* A model of the RAG100X evaluation notebooks                             *)
(* (src/rag_techniques/04_chunksize_rag_eval.ipynb):                       *)
(*                                                                         *)
(*   - the chunk-size comparison session: question generation, the one     *)
(*     random.sample that freezes the question set, the evaluator setup,   *)
(*     the loop over chunk_sizes and, inside it,                           *)
(*     evaluate_response_time_and_accuracy statement by statement;         *)
(*   - rerank_documents / compare_chunk_similarities (specification        *)
(*     SpecRerank);                                                        *)
(*   - the same session with deterministic collaborators over a sweep that *)
(*     repeats one chunk size (specification SpecDet);                     *)
(*   - the same session over every small chunk size, for the overlap       *)
(*     arithmetic (specification SpecSmall);                               *)
(*   - get_document_title / truncate_content / make_llm_call               *)
(*     (specification SpecTitle).                                          *)
(*                                                                         *)
(* External collaborators (question generator, index build, query engine,  *)
(* judges, reranker) return a nondeterministic result or raise.  The code  *)
(* has no try/except anywhere, so a raised exception propagates to the top *)
(* of the notebook cell: pc = "aborted" and nothing else runs.             *)
(***************************************************************************)
EXTENDS Integers, Sequences, FiniteSets

\* ------------------------------------------------------------------ bounds

\* Longest pool of candidate questions the question generator returns.
MaxPool == 2

\* The pools the question generator may return: one of alternating texts of
\* every length up to MaxPool, and one that repeats a single text (the generator
\* can emit the same question for two nodes, so a text may sit at two positions).
Pools ==
    {[i \in 1..n |-> IF i % 2 = 1 THEN "q1" ELSE "q2"] : n \in 0..MaxPool}
        \cup {<<"q1", "q1">>}

\* The sweeps a session may be configured with: the two chunk sizes of the
\* notebook (chunk_sizes, line 393, is [128, 256]) in the order no sorting
\* would produce, a sweep of a single size, and a sweep whose chunk size is not
\* positive.
ChunkSizeLists == {<<256, 128>>, <<128>>, <<0>>}

\* Wall-clock durations of one query, in arbitrary time units.
ElapsedTimes == {1, 2}

\* Wall-clock durations of one index build and of one judge call.
BuildTimes == {3}
JudgeTimes == {1}

\* The corpus eval_documents (documents[0:20] in the notebook, line 180).
Corpus == <<"doc1", "doc2">>

\* ------------------------------------------------------------------ state

VARIABLES
    pc,                   \* position of the session in the notebook
    error,                \* the exception that aborted the session, or "none"
    eval_questions,       \* the pool: data_generator.generate_questions_from_nodes()
    num_eval_questions,   \* sample size (25 in the notebook)
    k_eval_questions,     \* the frozen question set
    sample_idx,           \* pool positions behind k_eval_questions (history)
    sample_count,         \* how many times random.sample returned (history)
    chunk_sizes,          \* the sweep
    loop_i,               \* how many elements of chunk_sizes the for loop has taken
    Settings,             \* llama_index's global Settings object
    arg_chunk_size,       \* parameter chunk_size of the current call
    arg_eval_questions,   \* parameter eval_questions of the current call
    vector_index,         \* the index the current call built
    num_questions,
    qi,                   \* how many questions the inner for loop has taken
    total_response_time,
    total_faithfulness,
    total_relevancy,
    elapsed_time,
    faithfulness_result,
    relevancy_result,
    summary,              \* the tuple the call returned
    report,               \* the lines printed so far, one record per line
    runs_log,             \* per started call: the questions it got and asked (history)
    calls,                \* collaborator calls made so far (history)
    indices,              \* every index object built so far, oldest first
    query_engine,         \* the query engine of the current call
    faithfulness_gpt4,    \* the FaithfulnessEvaluator object
    relevancy_gpt4,       \* the RelevancyEvaluator object
    response_vector,      \* the response of the latest query
    memo,                 \* what each collaborator answered to each input (history)
    eval_documents,       \* the corpus the indices are built from
    now,                  \* the wall clock, time.time()
    start_time,
    \* rerank_documents / compare_chunk_similarities
    r_pc,                 \* position inside compare_chunk_similarities / rerank_documents
    r_caller,             \* "compare" when called from compare_chunk_similarities
    chunks,               \* parameter chunks of rerank_documents
    results,              \* reranked_results.results
    similarity_scores,
    r_i,                  \* how many results the reordering loop has taken
    r_error,              \* the exception that ended the call, or "none"
    printed,              \* the two scores compare_chunk_similarities printed
    rerank_calls,         \* the documents of every client.rerank call made (history)
    \* get_document_title / truncate_content
    t_pc,                 \* position inside get_document_title
    content,              \* the document text get_document_title was called with
    document_text,        \* the text after truncation
    num_tokens,
    truncation_message,
    chat_messages,        \* the prompts handed to make_llm_call so far
    returned_title        \* what get_document_title returned

config_vars == <<num_eval_questions, chunk_sizes>>
bench_vars  == <<eval_questions, k_eval_questions, sample_idx, sample_count>>
run_params  == <<arg_chunk_size, arg_eval_questions, vector_index, num_questions>>
run_totals  == <<total_response_time, total_faithfulness, total_relevancy>>
run_locals  == <<elapsed_time, faithfulness_result, relevancy_result>>
rerank_vars ==
    <<r_pc, r_caller, chunks, results, similarity_scores, r_i, r_error, printed,
      rerank_calls>>
clock_vars  == <<now, start_time>>
title_vars  ==
    <<t_pc, content, document_text, num_tokens, truncation_message, chat_messages,
      returned_title>>
heap_vars   == <<indices, query_engine>>
judge_vars  == <<faithfulness_gpt4, relevancy_gpt4>>
session_vars ==
    <<pc, error, config_vars, bench_vars, loop_i, Settings, run_params, qi,
      run_totals, run_locals, summary, report, runs_log, calls, heap_vars,
      judge_vars, response_vector, memo, eval_documents, clock_vars>>

\* ---------------------------------------------------------------- helpers

NoCalls == [qgen |-> 0, build |-> 0, query |-> 0, faithfulness |-> 0, relevancy |-> 0]

TotalCalls(c) == c.qgen + c.build + c.query + c.faithfulness + c.relevancy

\* One call of the collaborator who is made: each call statement of the
\* notebook calls its collaborator once.
CalledTwice(c, who) == [c EXCEPT ![who] = @ + 2]

Called(c, who) == [c EXCEPT ![who] = @ + 1]

\* Python's bool-to-int coercion in `total += result`.
BoolIntAlwaysOne(b) == 1

BoolInt(b) == IF b THEN 1 ELSE 0

\* All sequences over S of length 0..n.
SeqsUpTo(S, n) == UNION {[1..m -> S] : m \in 0..n}

\* An uncaught exception: the cell stops, every variable keeps its value.
Raise(kind) ==
    /\ pc' = "aborted"
    /\ error' = kind

\* ------------------------------------------------- benchmark generation

\* random.sample's inner step `pool[j] = pool[n-i-1]`: the drawn slot is
\* refilled with the last live element, so it cannot be drawn again.
SampleStepKeep(pool, j, m) == pool

SampleStep(pool, j, m) == [pool EXCEPT ![j] = pool[m]]

\* random.sample's loop `for i in range(k): j = randbelow(n-i); result[i] =
\* pool[j]; pool[j] = pool[n-i-1]`: the set of results it can return, m being
\* the number of live slots n-i and k the draws left.
RECURSIVE SampleFrom(_, _, _)
SampleFrom(pool, m, k) ==
    IF k = 0 THEN {<<>>}
    ELSE UNION {
        {<<pool[j]>> \o rest : rest \in SampleFrom(SampleStep(pool, j, m), m - 1, k - 1)}
        : j \in 1..m }

\* random.sample(population, k) run on the positions 1..n of the population:
\* the algorithm never looks at the elements, so the sample of the values is
\* the sample of the positions mapped through the population.
RandomSamplePositions(n, k) == SampleFrom([i \in 1..n |-> i], n, k)

\* Lines 181-182: the question generator is called and returns the pool.
GenerateQuestions ==
    /\ pc = "generate"
    /\ \E pool \in Pools : eval_questions' = pool
    /\ calls' = Called(calls, "qgen")
    /\ pc' = "sample"
    /\ UNCHANGED <<rerank_vars, title_vars, eval_documents, clock_vars,
                   heap_vars, judge_vars, response_vector, memo,
                   error, config_vars, k_eval_questions, sample_idx, sample_count,
                   loop_i, Settings, run_params, qi, run_totals, run_locals,
                   summary, report, runs_log>>

\* Line 183: k_eval_questions = random.sample(eval_questions, num_eval_questions).
\* random.sample raises ValueError when the sample is larger than the population.
SampleQuestions ==
    /\ pc = "sample"
    /\ IF num_eval_questions > Len(eval_questions)
       THEN /\ Raise("ValueError")
            /\ UNCHANGED <<k_eval_questions, sample_idx, sample_count>>
       ELSE /\ \E idx \in RandomSamplePositions(Len(eval_questions), num_eval_questions) :
                  /\ sample_idx' = idx
                  /\ k_eval_questions' = [i \in 1..Len(idx) |-> eval_questions[idx[i]]]
            /\ sample_count' = sample_count + 1
            /\ pc' = "setup"
            /\ error' = error
    /\ UNCHANGED <<rerank_vars, title_vars, eval_documents, clock_vars,
                   heap_vars, judge_vars, response_vector, memo,
                   config_vars, eval_questions, loop_i, Settings, run_params, qi,
                   run_totals, run_locals, summary, report, runs_log, calls>>

\* The OpenAI model objects: line 227 (temperature=0), line 329 (llama_index's
\* default temperature 0.1) and the Settings default; temperatures in tenths.
gpt4 == [model |-> "gpt-4o", temperature |-> 0]
gpt35 == [model |-> "gpt-3.5-turbo", temperature |-> 1]
default_llm == [model |-> "default", temperature |-> 1]

\* Lines 233 and 264: an evaluator constructed without arguments takes the
\* Settings.llm of that moment and the default templates of its metric.
NewEvaluator(settings, metric) ==
    [metric          |-> metric,
     llm             |-> settings.llm,
     eval_template   |-> <<"default", metric, "eval_template">>,
     refine_template |-> <<"default", metric, "refine_template">>]

\* Line 261: update_prompts({key: template}).  An evaluator's prompt table has
\* the keys eval_template and refine_template; an entry under another key
\* leaves the table, and so the templates the evaluator uses, as they were.
UpdatePrompts(evaluator, key, template) ==
    IF key = "eval_template" THEN [evaluator EXCEPT !.eval_template = template]
    ELSE IF key = "refine_template" THEN [evaluator EXCEPT !.refine_template = template]
    ELSE evaluator

\* Lines 235-259: the custom faithfulness template with its three worked examples.
faithfulness_new_prompt_template == <<"custom", "faithfulness", "three worked examples">>

\* Names not bound yet: no evaluator, query engine or response exists before
\* the cell that makes it has run, and no collaborator has been called.
NoEvaluator ==
    [metric |-> "none", llm |-> default_llm, eval_template |-> <<>>,
     refine_template |-> <<>>]

NoQueryEngine ==
    [index |-> [chunk_size |-> 0, chunk_overlap |-> 0], llm |-> default_llm,
     similarity_top_k |-> 0]

NoResponse == [question |-> "", response |-> "", query_engine |-> NoQueryEngine]

NoMemo == [query |-> {}, faithfulness |-> {}, relevancy |-> {}]

\* Lines 227-264: the judge model becomes the global Settings.llm and the two
\* evaluators are constructed.
SetupEvaluators ==
    /\ pc = "setup"
    /\ Settings' = [Settings EXCEPT !.llm = gpt4]
    /\ faithfulness_gpt4' =
          UpdatePrompts(NewEvaluator(Settings', "faithfulness"),
                        "your_prompt_key", faithfulness_new_prompt_template)
    /\ relevancy_gpt4' = NewEvaluator(Settings', "relevancy")
    /\ pc' = "loop"
    /\ UNCHANGED <<rerank_vars, title_vars, eval_documents, clock_vars,
                   heap_vars, response_vector, memo,
                   error, config_vars, bench_vars, loop_i, run_params, qi,
                   run_totals, run_locals, summary, report, runs_log, calls>>

\* ----------------------------------------- evaluate_response_time_and_accuracy

\* Line 396: the second argument of the call.
LoopArgPool == eval_questions

LoopArg == k_eval_questions

\* Line 344: `for question in eval_questions` takes the questions front to back.
QuestionAtFromEnd(questions, i) == questions[Len(questions) + 1 - i]

QuestionAt(questions, i) == questions[i]

\* One event of a run, as observed when it happens (history).
Event(kind, question) == [kind |-> kind, question |-> question]

\* The history kept for one call of the function: the questions it was handed,
\* those it asked, the durations and passing verdicts as they were observed,
\* the events in the order they happened, the index as it was when built, the
\* corpus on entry, the judge configurations its judge calls ran with, and the
\* global Settings on entry.
NewRunLog(questions) ==
    [questions           |-> questions,
     asked               |-> <<>>,
     elapsed_sum         |-> 0,
     faithfulness_passes |-> 0,
     relevancy_passes    |-> 0,
     events              |-> <<>>,
     built               |-> [chunk_size |-> 0, chunk_overlap |-> 0],
     documents           |-> eval_documents,
     judges              |-> {},
     settings_before     |-> Settings]

\* Line 333: Settings.chunk_overlap = chunk_size // 5.
ChunkOverlapRoundedUp(chunk_size) == (chunk_size + 4) \div 5

ChunkOverlap(chunk_size) == chunk_size \div 5

\* Lines 329-333: the global Settings after the function overwrote them.  The
\* first variant below computes the overlap from the chunk size still in
\* Settings, and keeps whatever language model is current.
RunSettingsStale(chunk_size) ==
    [llm           |-> Settings.llm,
     chunk_size    |-> chunk_size,
     chunk_overlap |-> ChunkOverlap(Settings.chunk_size)]

RunSettings(chunk_size) ==
    [llm           |-> gpt35,
     chunk_size    |-> chunk_size,
     chunk_overlap |-> ChunkOverlap(chunk_size)]

\* Line 395: `for chunk_size in chunk_sizes` takes the chunk sizes front to
\* back; taken is the number it has taken so far.
NextConfigFromEnd(sweep, taken) == sweep[Len(sweep) - taken]

NextConfig(sweep, taken) == sweep[taken + 1]

\* Lines 395-396 and 324-333: the for loop takes the next chunk size and calls
\* the function, which zeroes its totals and overwrites the global Settings.
EnterRun ==
    /\ pc = "loop"
    /\ loop_i < Len(chunk_sizes)
    /\ loop_i' = loop_i + 1
    /\ arg_chunk_size' = NextConfig(chunk_sizes, loop_i)
    /\ arg_eval_questions' = LoopArg
    /\ total_response_time' = 0
    /\ total_faithfulness' = 0
    /\ total_relevancy' = 0
    /\ Settings' = RunSettings(arg_chunk_size')
    /\ runs_log' = Append(runs_log, NewRunLog(LoopArg))
    /\ pc' = "build"
    /\ UNCHANGED <<rerank_vars, title_vars, eval_documents, clock_vars,
                   heap_vars, judge_vars, response_vector, memo,
                   error, config_vars, bench_vars, vector_index, num_questions, qi,
                   run_locals, summary, report, calls>>

\* Line 335: from_documents reads the corpus; the list and its documents are
\* what they were.
CorpusConsumedByBuild(documents) == <<>>

CorpusAfterBuild(documents) == documents

\* Line 335: VectorStoreIndex.from_documents makes a new index object with its
\* own in-memory store; the objects made before stay as they are.
NewIndexShared(heap, index) == [i \in 1..(Len(heap) + 1) |-> index]

NewIndex(heap, index) == Append(heap, index)

\* Line 338: the query engine keeps its index, the Settings.llm of the moment
\* it is made and similarity_top_k.
NewQueryEngine(index, settings) ==
    [index |-> index, llm |-> settings.llm, similarity_top_k |-> 5]

\* Lines 335-339: the index is built under the current global Settings.
BuildIndex ==
    /\ pc = "build"
    /\ calls' = Called(calls, "build")
    /\ \/ /\ vector_index' = [chunk_size    |-> Settings.chunk_size,
                              chunk_overlap |-> Settings.chunk_overlap]
          /\ indices' = NewIndex(indices, vector_index')
          /\ query_engine' = NewQueryEngine(vector_index', Settings)
          /\ eval_documents' = CorpusAfterBuild(eval_documents)
          /\ \E d \in BuildTimes : now' = now + d
          /\ runs_log' = [runs_log EXCEPT ![Len(runs_log)].built = vector_index']
          /\ num_questions' = Len(arg_eval_questions)
          /\ qi' = 0
          /\ pc' = "for"
          /\ error' = error
       \/ /\ Raise("IndexBuildError")
          /\ UNCHANGED <<vector_index, num_questions, qi, heap_vars, runs_log,
                         eval_documents, now>>
    /\ UNCHANGED <<rerank_vars, title_vars, start_time,
                   judge_vars, response_vector, memo,
                   config_vars, bench_vars, loop_i, Settings, arg_chunk_size,
                   arg_eval_questions, run_totals, run_locals, summary, report>>

\* What a query may answer: a text, or the empty string.
Answers == {"", "answer"}

\* Everything the query reads: the question and the query engine.
QueryInput == <<QuestionAt(arg_eval_questions, qi + 1), query_engine>>

\* The model a judge call runs on: the one its evaluator took at construction.
JudgeLlmFromSettings(evaluator) == Settings.llm

JudgeLlm(evaluator) == evaluator.llm

\* The configuration one judge call runs with.
JudgeConfig(evaluator) ==
    [metric          |-> evaluator.metric,
     llm             |-> JudgeLlm(evaluator),
     eval_template   |-> evaluator.eval_template,
     refine_template |-> evaluator.refine_template]

\* Everything a judge call reads: the response (for relevancy with its
\* question), its configuration, and the global Settings the library consults
\* when it indexes the contexts.
JudgeInput(evaluator) == <<response_vector, JudgeConfig(evaluator), Settings>>

\* Line 345: start_time = time.time(), read immediately before the query.
StartTimeOfSession(clock) == 0

StartTime(clock) == clock

\* Lines 344-347, the query returning: the next question is taken, timed and
\* queried; it takes t time units and answers with the text answer.
QueryReturns(t, answer) ==
    /\ pc = "for"
    /\ qi < Len(arg_eval_questions)
    /\ qi' = qi + 1
    /\ calls' = Called(calls, "query")
    /\ LET question == QuestionAt(arg_eval_questions, qi + 1)
       IN /\ response_vector' = [question |-> question, response |-> answer,
                                 query_engine |-> query_engine]
          /\ start_time' = StartTime(now)
          /\ now' = now + t
          /\ elapsed_time' = now' - start_time'
          /\ runs_log' = [runs_log EXCEPT
                            ![Len(runs_log)].asked = Append(@, question),
                            ![Len(runs_log)].elapsed_sum = @ + t,
                            ![Len(runs_log)].events =
                                @ \o <<Event("start", question), Event("query", question),
                                       Event("elapsed", question)>>]
    /\ pc' = "faithfulness"
    /\ UNCHANGED <<rerank_vars, title_vars, eval_documents,
                   heap_vars, judge_vars,
                   error, config_vars, bench_vars, loop_i, Settings, run_params,
                   run_totals, faithfulness_result, relevancy_result, summary,
                   report>>

\* Lines 344-346, the query raising.
QueryRaises ==
    /\ pc = "for"
    /\ qi < Len(arg_eval_questions)
    /\ qi' = qi + 1
    /\ calls' = Called(calls, "query")
    /\ LET question == QuestionAt(arg_eval_questions, qi + 1)
       IN runs_log' = [runs_log EXCEPT
                          ![Len(runs_log)].asked = Append(@, question),
                          ![Len(runs_log)].events =
                              @ \o <<Event("start", question), Event("query", question)>>]
    /\ start_time' = StartTime(now)
    /\ Raise("QueryError")
    /\ UNCHANGED <<rerank_vars, title_vars, eval_documents, now,
                   heap_vars, judge_vars, response_vector, memo,
                   config_vars, bench_vars, loop_i, Settings, run_params,
                   run_totals, run_locals, summary, report>>

\* Lines 344-347: the next question is taken, timed and queried.
Query ==
    \/ /\ \E t \in ElapsedTimes, answer \in Answers : QueryReturns(t, answer)
       /\ UNCHANGED memo
    \/ QueryRaises

\* The history of a judge call on the current question that has been made.
JudgeCalled(evaluator) ==
    [runs_log EXCEPT
        ![Len(runs_log)].events =
            Append(@, Event(evaluator.metric, QuestionAt(arg_eval_questions, qi))),
        ![Len(runs_log)].judges = @ \cup {JudgeConfig(evaluator)}]

\* Lines 349-351, the faithfulness judge call returning the verdict b.
FaithfulnessReturns(b) ==
    /\ pc = "faithfulness"
    /\ calls' = Called(calls, "faithfulness")
    /\ faithfulness_result' = b
    /\ \E d \in JudgeTimes : now' = now + d
    /\ runs_log' = [JudgeCalled(faithfulness_gpt4) EXCEPT
                       ![Len(runs_log)].faithfulness_passes = IF b THEN @ + 1 ELSE @]
    /\ pc' = "relevancy"
    /\ UNCHANGED <<rerank_vars, title_vars, eval_documents, start_time,
                   heap_vars, judge_vars, response_vector,
                   error, config_vars, bench_vars, loop_i, Settings, run_params, qi,
                   run_totals, elapsed_time, relevancy_result, summary, report>>

\* Lines 349-351, the faithfulness judge call raising.
FaithfulnessRaises ==
    /\ pc = "faithfulness"
    /\ calls' = Called(calls, "faithfulness")
    /\ runs_log' = JudgeCalled(faithfulness_gpt4)
    /\ Raise("FaithfulnessJudgeError")
    /\ UNCHANGED <<rerank_vars, title_vars, eval_documents, clock_vars,
                   heap_vars, judge_vars, response_vector, memo,
                   config_vars, bench_vars, loop_i, Settings, run_params, qi,
                   run_totals, run_locals, summary, report>>

\* Lines 349-351: one faithfulness judge call.
JudgeFaithfulness ==
    \/ /\ \E b \in BOOLEAN : FaithfulnessReturns(b)
       /\ UNCHANGED memo
    \/ FaithfulnessRaises

\* Lines 353-355, the relevancy judge call returning the verdict b.
RelevancyReturns(b) ==
    /\ pc = "relevancy"
    /\ calls' = Called(calls, "relevancy")
    /\ relevancy_result' = b
    /\ \E d \in JudgeTimes : now' = now + d
    /\ runs_log' = [JudgeCalled(relevancy_gpt4) EXCEPT
                       ![Len(runs_log)].relevancy_passes = IF b THEN @ + 1 ELSE @]
    /\ pc' = "accumulate"
    /\ UNCHANGED <<rerank_vars, title_vars, eval_documents, start_time,
                   heap_vars, judge_vars, response_vector,
                   error, config_vars, bench_vars, loop_i, Settings, run_params, qi,
                   run_totals, elapsed_time, faithfulness_result, summary, report>>

\* Lines 353-355, the relevancy judge call raising.
RelevancyRaises ==
    /\ pc = "relevancy"
    /\ calls' = Called(calls, "relevancy")
    /\ runs_log' = JudgeCalled(relevancy_gpt4)
    /\ Raise("RelevancyJudgeError")
    /\ UNCHANGED <<rerank_vars, title_vars, eval_documents, clock_vars,
                   heap_vars, judge_vars, response_vector, memo,
                   config_vars, bench_vars, loop_i, Settings, run_params, qi,
                   run_totals, run_locals, summary, report>>

\* Lines 353-355: one relevancy judge call.
JudgeRelevancy ==
    \/ /\ \E b \in BOOLEAN : RelevancyReturns(b)
       /\ UNCHANGED memo
    \/ RelevancyRaises

\* Lines 357-359.
Accumulate ==
    /\ pc = "accumulate"
    /\ total_response_time' = total_response_time + elapsed_time
    /\ total_faithfulness' = total_faithfulness + BoolInt(faithfulness_result)
    /\ total_relevancy' = total_relevancy + BoolInt(relevancy_result)
    /\ pc' = "for"
    /\ UNCHANGED <<rerank_vars, title_vars, eval_documents, clock_vars,
                   heap_vars, judge_vars, response_vector, memo,
                   error, config_vars, bench_vars, loop_i, Settings, run_params, qi,
                   run_locals, summary, report, runs_log, calls>>

\* Python's true division, kept exact as numerator and denominator.
Divide(total, n) == [num |-> total, den |-> n]

\* Python's true division raises ZeroDivisionError for a zero divisor.
DivisionNeverRaises(n) == FALSE

DivisionRaises(n) == n = 0

\* Lines 361-365: the averages; dividing by num_questions = 0 raises.  On
\* return the function's frame is gone: its totals and per-question locals
\* are unbound again.
Average ==
    /\ pc = "for"
    /\ qi = Len(arg_eval_questions)
    /\ IF DivisionRaises(num_questions)
       THEN /\ Raise("ZeroDivisionError")
            /\ UNCHANGED <<summary, run_totals, run_locals, response_vector, start_time>>
       ELSE /\ summary' = [average_response_time |-> Divide(total_response_time, num_questions),
                           average_faithfulness  |-> Divide(total_faithfulness, num_questions),
                           average_relevancy     |-> Divide(total_relevancy, num_questions)]
            /\ total_response_time' = 0
            /\ total_faithfulness' = 0
            /\ total_relevancy' = 0
            /\ elapsed_time' = 0
            /\ faithfulness_result' = FALSE
            /\ relevancy_result' = FALSE
            /\ response_vector' = NoResponse
            /\ start_time' = 0
            /\ pc' = "print"
            /\ error' = error
    /\ UNCHANGED <<rerank_vars, title_vars, eval_documents, now,
                   heap_vars, judge_vars, memo,
                   config_vars, bench_vars, loop_i, Settings, run_params, qi,
                   report, runs_log, calls>>

\* Line 397: one printed line per finished call, after the lines printed before.
PrintRowFirst(rows, row) == <<row>> \o rows

PrintRow(rows, row) == Append(rows, row)

\* Line 397.
PrintSummary ==
    /\ pc = "print"
    /\ report' = PrintRow(report, [chunk_size        |-> chunk_sizes[loop_i],
                                   avg_response_time |-> summary.average_response_time,
                                   avg_faithfulness  |-> summary.average_faithfulness,
                                   avg_relevancy     |-> summary.average_relevancy])
    /\ pc' = "loop"
    /\ UNCHANGED <<rerank_vars, title_vars, eval_documents, clock_vars,
                   heap_vars, judge_vars, response_vector, memo,
                   error, config_vars, bench_vars, loop_i, Settings, run_params, qi,
                   run_totals, run_locals, summary, runs_log, calls>>

\* Line 395: chunk_sizes is exhausted.
LoopExit ==
    /\ pc = "loop"
    /\ loop_i = Len(chunk_sizes)
    /\ pc' = "done"
    /\ UNCHANGED <<rerank_vars, title_vars, eval_documents, clock_vars,
                   heap_vars, judge_vars, response_vector, memo,
                   error, config_vars, bench_vars, loop_i, Settings, run_params, qi,
                   run_totals, run_locals, summary, report, runs_log, calls>>

\* ------------------------------------------ rerank_documents / comparator

\* Longest chunk list rerank_documents is called with directly.
MaxChunks == 3

\* Relevance scores the reranker may give (the default slot value 0 is none of them).
Scores == {1, 2}

\* Chunk texts and titles of the comparator; a text is a sequence of pieces.
ChunkTexts == {"c1", "c2"}
DocumentTitles == {"T1"}

\* What client.rerank may send back for n documents: up to n results, each
\* naming a 0-based index (in range, one past the end, or negative) and a score.
RerankResults(n) ==
    SeqsUpTo([index : (-1)..n, relevance_score : Scores], n)

\* Python's list subscript: the 1-based position a 0-based (or negative) index
\* denotes in a list of length n, or 0 where Python raises IndexError.
PyIndex(n, index) ==
    IF 0 <= index /\ index < n THEN index + 1
    ELSE IF -n <= index /\ index < 0 THEN n + index + 1
    ELSE 0

\* Line 822: similarity_scores[index] = reranked_similarity_scores[i].
ReorderAssignInPlace(scores, i, index, score) == [scores EXCEPT ![i] = score]

ReorderAssign(scores, i, index, score) ==
    [scores EXCEPT ![PyIndex(Len(scores), index)] = score]

\* Line 835: the header-prefixed candidate.
WithHeader(document_title, chunk_text) ==
    <<"Document Title: ", document_title, "\n\n", chunk_text>>

\* A direct call rerank_documents(query, chunks).
CallRerankDocuments ==
    /\ r_pc = "idle"
    /\ \E n \in 0..MaxChunks : chunks' = [i \in 1..n |-> <<"chunk">>]
    /\ r_caller' = "direct"
    /\ r_pc' = "rerank"
    /\ UNCHANGED <<session_vars, title_vars, rerank_calls,
                   results, similarity_scores, r_i, r_error, printed>>

\* Line 837: the list handed to rerank_documents, [chunk_wo_header,
\* chunk_w_header].
CandidatesHeaderFirst(chunk_text, document_title) ==
    << WithHeader(document_title, chunk_text), <<chunk_text>> >>

Candidates(chunk_text, document_title) ==
    << <<chunk_text>>, WithHeader(document_title, chunk_text) >>

\* Lines 833-837: compare_chunk_similarities builds its two candidates and
\* calls rerank_documents with them.
CompareChunkSimilarities ==
    /\ r_pc = "idle"
    /\ \E chunk_text \in ChunkTexts, document_title \in DocumentTitles :
          chunks' = Candidates(chunk_text, document_title)
    /\ r_caller' = "compare"
    /\ r_pc' = "rerank"
    /\ UNCHANGED <<session_vars, title_vars, rerank_calls,
                   results, similarity_scores, r_i, r_error, printed>>

\* Lines 813-820: the reranker is called once; the score list starts as zeros.
ClientRerank ==
    /\ r_pc = "rerank"
    /\ rerank_calls' = Append(rerank_calls, chunks)
    /\ \/ /\ \E res \in RerankResults(Len(chunks)) : results' = res
          /\ similarity_scores' = [i \in 1..Len(chunks) |-> 0]
          /\ r_i' = 0
          /\ r_pc' = "reorder"
          /\ r_error' = r_error
       \/ /\ r_pc' = "raised"
          /\ r_error' = "RerankError"
          /\ UNCHANGED <<results, similarity_scores, r_i>>
    /\ UNCHANGED <<session_vars, title_vars, r_caller, chunks, printed>>

\* Lines 821-822: one iteration of `for i, index in enumerate(reranked_indices)`.
ReorderStep ==
    /\ r_pc = "reorder"
    /\ r_i < Len(results)
    /\ r_i' = r_i + 1
    /\ IF PyIndex(Len(similarity_scores), results[r_i + 1].index) = 0
       THEN /\ r_pc' = "raised"
            /\ r_error' = "IndexError"
            /\ UNCHANGED similarity_scores
       ELSE /\ similarity_scores' =
                  ReorderAssign(similarity_scores, r_i + 1, results[r_i + 1].index,
                                results[r_i + 1].relevance_score)
            /\ UNCHANGED <<r_pc, r_error>>
    /\ UNCHANGED <<session_vars, title_vars, rerank_calls,
                   r_caller, chunks, results, printed>>

\* Line 824: return similarity_scores.
RerankReturn ==
    /\ r_pc = "reorder"
    /\ r_i = Len(results)
    /\ r_pc' = IF r_caller = "compare" THEN "print" ELSE "returned"
    /\ UNCHANGED <<session_vars, title_vars, rerank_calls,
                   r_caller, chunks, results, similarity_scores, r_i,
                   r_error, printed>>

\* Lines 842-843: the two scores are printed, without header first.
PrintScores ==
    /\ r_pc = "print"
    /\ printed' = <<similarity_scores[1], similarity_scores[2]>>
    /\ r_pc' = "returned"
    /\ UNCHANGED <<session_vars, title_vars, rerank_calls,
                   r_caller, chunks, results, similarity_scores, r_i,
                   r_error>>

\* ------------------------------------- get_document_title / truncate_content

\* MAX_CONTENT_TOKENS (line 736; 4000 in the notebook, scaled down here).
MAX_CONTENT_TOKENS == 2

\* Characters of a document text, and the documents get_document_title may be
\* called with: every text of up to MAX_CONTENT_TOKENS + 2 characters.
Chars == {"a", "b"}
Documents == SeqsUpTo(Chars, MAX_CONTENT_TOKENS + 2)

\* Titles the language model may answer with.
Titles == {"T1", "T2"}

\* Line 733: the truncation notice.
TRUNCATION_MESSAGE == "Also note that the document text provided below is just the first ~3000 words"

\* TOKEN_ENCODER.encode: the tokens of the text from position i on.  The
\* vocabulary has the single characters and the merged pair "ab"; the encoder
\* merges wherever it can, left to right.  A token is its characters.
RECURSIVE EncodeFrom(_, _)
EncodeFrom(text, i) ==
    IF i > Len(text) THEN <<>>
    ELSE IF i < Len(text) /\ text[i] = "a" /\ text[i + 1] = "b"
         THEN << <<"a", "b">> >> \o EncodeFrom(text, i + 2)
         ELSE << <<text[i]>> >> \o EncodeFrom(text, i + 1)

Encode(text) == EncodeFrom(text, 1)

\* TOKEN_ENCODER.decode: the characters of the tokens, one after another.
RECURSIVE Decode(_)
Decode(tokens) ==
    IF tokens = <<>> THEN <<>> ELSE Head(tokens) \o Decode(Tail(tokens))

\* Python's min on two ints.
Min(a, b) == IF a < b THEN a ELSE b

\* Python's slice tokens[:stop]: a negative stop counts from the end.
SliceTo(tokens, stop) ==
    IF stop >= 0 THEN SubSeq(tokens, 1, Min(stop, Len(tokens)))
    ELSE SubSeq(tokens, 1, Len(tokens) + stop)

\* Lines 754-757: truncate_content(content, max_tokens).
truncate_content(text, max_tokens) ==
    LET tokens == Encode(text)
        truncated_tokens == SliceTo(tokens, max_tokens)
    IN <<Decode(truncated_tokens), Min(Len(tokens), max_tokens)>>

\* A call get_document_title(document_text).
CallGetDocumentTitle ==
    /\ t_pc = "idle"
    /\ \E doc \in Documents : content' = doc
    /\ t_pc' = "truncate"
    /\ UNCHANGED <<session_vars, rerank_vars, document_text, num_tokens,
                   truncation_message, chat_messages, returned_title>>

\* Line 761: document_text, num_tokens = truncate_content(document_text,
\* MAX_CONTENT_TOKENS).
TruncateContent ==
    /\ t_pc = "truncate"
    /\ document_text' = truncate_content(content, MAX_CONTENT_TOKENS)[1]
    /\ num_tokens' = truncate_content(content, MAX_CONTENT_TOKENS)[2]
    /\ t_pc' = "message"
    /\ UNCHANGED <<session_vars, rerank_vars, content, truncation_message,
                   chat_messages, returned_title>>

\* Line 762: the notice is chosen when num_tokens >= MAX_CONTENT_TOKENS.
ChooseTruncationMessage ==
    /\ t_pc = "message"
    /\ truncation_message' =
          IF num_tokens >= MAX_CONTENT_TOKENS THEN TRUNCATION_MESSAGE ELSE ""
    /\ t_pc' = "prompt"
    /\ UNCHANGED <<session_vars, rerank_vars, content, document_text, num_tokens,
                   chat_messages, returned_title>>

\* Lines 764-769: the prompt is formatted with the notice and the text.
BuildPrompt ==
    /\ t_pc = "prompt"
    /\ chat_messages' =
          Append(chat_messages, [truncation_message |-> truncation_message,
                                 document_text      |-> document_text])
    /\ t_pc' = "llm"
    /\ UNCHANGED <<session_vars, rerank_vars, content, document_text, num_tokens,
                   truncation_message, returned_title>>

\* Lines 743-751 and 770: make_llm_call returns a title or raises.
MakeLlmCall ==
    /\ t_pc = "llm"
    /\ \/ /\ \E title \in Titles : returned_title' = title
          /\ t_pc' = "returned"
       \/ /\ t_pc' = "raised"
          /\ UNCHANGED returned_title
    /\ UNCHANGED <<session_vars, rerank_vars, content, document_text, num_tokens,
                   truncation_message, chat_messages>>

\* ---------------------------------------------------------- specification

NoSummary == [average_response_time |-> Divide(0, 0),
              average_faithfulness  |-> Divide(0, 0),
              average_relevancy     |-> Divide(0, 0)]

\* The notebook before the question-generation cell runs; the session's
\* configuration (sample size, sweep) is drawn from the bounded sets.
InitSessionWith(sweeps) ==
    /\ pc = "generate"
    /\ error = "none"
    /\ eval_questions = <<>>
    /\ num_eval_questions \in 0..(MaxPool + 1)
    /\ k_eval_questions = <<>>
    /\ sample_idx = <<>>
    /\ sample_count = 0
    /\ chunk_sizes \in sweeps
    /\ loop_i = 0
    /\ Settings = [llm |-> default_llm, chunk_size |-> 1024, chunk_overlap |-> 200]
    /\ arg_chunk_size = 0
    /\ arg_eval_questions = <<>>
    /\ vector_index = [chunk_size |-> 0, chunk_overlap |-> 0]
    /\ num_questions = 0
    /\ qi = 0
    /\ total_response_time = 0
    /\ total_faithfulness = 0
    /\ total_relevancy = 0
    /\ elapsed_time = 0
    /\ faithfulness_result = FALSE
    /\ relevancy_result = FALSE
    /\ summary = NoSummary
    /\ report = <<>>
    /\ runs_log = <<>>
    /\ calls = NoCalls
    /\ indices = <<>>
    /\ query_engine = NoQueryEngine
    /\ faithfulness_gpt4 = NoEvaluator
    /\ relevancy_gpt4 = NoEvaluator
    /\ response_vector = NoResponse
    /\ memo = NoMemo
    /\ eval_documents = Corpus
    /\ now = 0
    /\ start_time = 0

InitSession == InitSessionWith(ChunkSizeLists)

\* No rerank call is under way.
InitRerank ==
    /\ r_pc = "idle"
    /\ r_caller = "none"
    /\ chunks = <<>>
    /\ results = <<>>
    /\ similarity_scores = <<>>
    /\ r_i = 0
    /\ r_error = "none"
    /\ printed = <<>>
    /\ rerank_calls = <<>>

\* get_document_title has not been called.
InitTitle ==
    /\ t_pc = "idle"
    /\ content = <<>>
    /\ document_text = <<>>
    /\ num_tokens = 0
    /\ truncation_message = ""
    /\ chat_messages = <<>>
    /\ returned_title = ""

vars == <<session_vars, rerank_vars, title_vars>>

\* The chunk-size comparison session.
Init == InitSession /\ InitRerank /\ InitTitle

Next ==
    \/ GenerateQuestions
    \/ SampleQuestions
    \/ SetupEvaluators
    \/ EnterRun
    \/ BuildIndex
    \/ Query
    \/ JudgeFaithfulness
    \/ JudgeRelevancy
    \/ Accumulate
    \/ Average
    \/ PrintSummary
    \/ LoopExit

Spec == Init /\ [][Next]_vars

\* The contextual-chunk-header notebook: one call of rerank_documents, direct
\* or through compare_chunk_similarities.  The session variables stay at the
\* notebook's own configuration and take no step.
InitR ==
    /\ InitSessionWith({<<128, 256>>})
    /\ num_eval_questions = 0
    /\ InitRerank
    /\ InitTitle

NextR ==
    \/ CallRerankDocuments
    \/ CompareChunkSimilarities
    \/ ClientRerank
    \/ ReorderStep
    \/ RerankReturn
    \/ PrintScores

SpecRerank == InitR /\ [][NextR]_vars

\* The contextual-chunk-header notebook: one call of get_document_title.
InitT == InitR

NextT ==
    \/ CallGetDocumentTitle
    \/ TruncateContent
    \/ ChooseTruncationMessage
    \/ BuildPrompt
    \/ MakeLlmCall

SpecTitle == InitT /\ [][NextT]_vars

\* ------------------------------------------------ deterministic collaborators

\* A collaborator is deterministic when a call with an input it has seen
\* returns what it returned then.  memo holds, per collaborator, the pairs
\* <<input, output>> of the calls that returned.
Deterministic(seen, input, output) ==
    \A e \in seen : e[1] = input => e[2] = output

\* A call may raise only on an input for which it has not returned.
NeverReturned(seen, input) ==
    \A e \in seen : e[1] # input

\* Lines 344-347 with a deterministic query engine.
QueryDet ==
    \/ \E t \in ElapsedTimes, answer \in Answers :
          /\ pc = "for"
          /\ qi < Len(arg_eval_questions)
          /\ Deterministic(memo.query, QueryInput, answer)
          /\ QueryReturns(t, answer)
          /\ memo' = [memo EXCEPT !.query = @ \cup {<<QueryInput, answer>>}]
    \/ /\ pc = "for"
       /\ qi < Len(arg_eval_questions)
       /\ NeverReturned(memo.query, QueryInput)
       /\ QueryRaises

\* Lines 349-351 with a deterministic faithfulness judge.
JudgeFaithfulnessDet ==
    \/ \E b \in BOOLEAN :
          /\ Deterministic(memo.faithfulness, JudgeInput(faithfulness_gpt4), b)
          /\ FaithfulnessReturns(b)
          /\ memo' = [memo EXCEPT
                         !.faithfulness = @ \cup {<<JudgeInput(faithfulness_gpt4), b>>}]
    \/ /\ NeverReturned(memo.faithfulness, JudgeInput(faithfulness_gpt4))
       /\ FaithfulnessRaises

\* Lines 353-355 with a deterministic relevancy judge.
JudgeRelevancyDet ==
    \/ \E b \in BOOLEAN :
          /\ Deterministic(memo.relevancy, JudgeInput(relevancy_gpt4), b)
          /\ RelevancyReturns(b)
          /\ memo' = [memo EXCEPT
                         !.relevancy = @ \cup {<<JudgeInput(relevancy_gpt4), b>>}]
    \/ /\ NeverReturned(memo.relevancy, JudgeInput(relevancy_gpt4))
       /\ RelevancyRaises

\* Sweeps that evaluate one config more than once.
RepeatedSweeps == {<<128, 128, 128>>}

\* A session whose sweep repeats one config.
InitDet ==
    /\ InitSessionWith(RepeatedSweeps)
    /\ InitRerank
    /\ InitTitle

NextDet ==
    \/ GenerateQuestions
    \/ SampleQuestions
    \/ SetupEvaluators
    \/ EnterRun
    \/ BuildIndex
    \/ QueryDet
    \/ JudgeFaithfulnessDet
    \/ JudgeRelevancyDet
    \/ Accumulate
    \/ Average
    \/ PrintSummary
    \/ LoopExit

SpecDet == InitDet /\ [][NextDet]_vars

\* ------------------------------------------------------ small chunk sizes

\* Largest chunk size of the sweeps below.
MaxChunkSize == 10

\* Sweeps that evaluate one small chunk size twice.
SmallSweeps == {<<c, c>> : c \in 1..MaxChunkSize}

\* A session over one question whose sweep is one of the small sweeps.
InitSmall ==
    /\ InitSessionWith(SmallSweeps)
    /\ num_eval_questions = 1
    /\ InitRerank
    /\ InitTitle

SpecSmall == InitSmall /\ [][Next]_vars

\* ------------------------------------------------------------------ claims

Range(f) == {f[i] : i \in DOMAIN f}

\* A rate is a fraction of the whole question set lying in [0, 1].
RateOver(rate, n) == rate.den = n /\ 0 <= rate.num /\ rate.num <= rate.den

\* Exceptions raised by a per-question call (query or judge).
PerQuestionErrors == {"QueryError", "FaithfulnessJudgeError", "RelevancyJudgeError"}

\* Exceptions raised while one variant is built or evaluated.
VariantErrors == PerQuestionErrors \cup {"IndexBuildError", "ZeroDivisionError"}

\* C1: the frozen question set has exactly sample_size questions, random.sample
\* returns at most once in a session, and every call of the evaluation function
\* (one per chunk size) is handed that very sequence and asks its questions in
\* that order.
C1_FrozenSetSampledOnceAndShared ==
    /\ sample_count <= 1
    /\ sample_count = 1 => Len(k_eval_questions) = num_eval_questions
    /\ \A v \in 1..Len(runs_log) :
          /\ sample_count = 1
          /\ runs_log[v].questions = k_eval_questions
          /\ Len(runs_log[v].asked) <= Len(k_eval_questions)
          /\ runs_log[v].asked = SubSeq(k_eval_questions, 1, Len(runs_log[v].asked))
    /\ loop_i >= 1 => arg_eval_questions = k_eval_questions

\* C1 witness: a second variant has asked both questions of a two-question
\* frozen set whose order differs from the pool's.
C1_Witness ==
    /\ Len(runs_log) = 2
    /\ Len(k_eval_questions) = 2
    /\ k_eval_questions # eval_questions
    /\ runs_log[1].asked = k_eval_questions
    /\ runs_log[2].asked = k_eval_questions

\* C2: every run ends in a summary whose two rates lie in [0, 1] over the
\* denominator N, also when a per-question call of that run raised: the run with
\* the errored question still yields its row.
C2_RatesOverNDespiteErrors ==
    /\ \A i \in 1..Len(report) :
          /\ RateOver(report[i].avg_faithfulness, Len(k_eval_questions))
          /\ RateOver(report[i].avg_relevancy, Len(k_eval_questions))
    /\ error \in PerQuestionErrors =>
          /\ Len(report) = loop_i
          /\ RateOver(report[loop_i].avg_faithfulness, Len(k_eval_questions))
          /\ RateOver(report[loop_i].avg_relevancy, Len(k_eval_questions))

\* C3: a query that raises does not abort the run: the question is scored as
\* failing on both metrics and the session is not left aborted.
C3_QueryErrorDoesNotAbortRun ==
    error = "QueryError" =>
        /\ pc # "aborted"
        /\ faithfulness_result = FALSE
        /\ relevancy_result = FALSE

\* C4: a judge call is attempted at most twice per question and metric, and a
\* judge call that keeps failing is recorded as a failing verdict while the run
\* goes on.
C4_JudgeFailureFallsBackToFail ==
    /\ calls.faithfulness <= 2 * calls.query
    /\ calls.relevancy <= 2 * calls.query
    /\ error = "FaithfulnessJudgeError" => (pc # "aborted" /\ faithfulness_result = FALSE)
    /\ error = "RelevancyJudgeError" => (pc # "aborted" /\ relevancy_result = FALSE)

\* C5: when the sample size exceeds the pool size the error is raised before
\* any collaborator call: no call has been made when the ValueError is raised.
C5_OversizedSampleFailsBeforeAnyCall ==
    error = "ValueError" => TotalCalls(calls) = 0

\* C6: the frozen set is drawn without replacement: its length is the sample
\* size, each element is the pool's element at a chosen position, no position is
\* chosen twice, a full-size sample takes every position, and sampling fails
\* only when the sample size exceeds the pool size (never a shorter set).
C6_SampleWithoutReplacement ==
    /\ sample_count = 1 =>
          /\ Len(sample_idx) = num_eval_questions
          /\ Len(k_eval_questions) = num_eval_questions
          /\ \A i \in 1..Len(sample_idx) :
                /\ sample_idx[i] \in 1..Len(eval_questions)
                /\ k_eval_questions[i] = eval_questions[sample_idx[i]]
          /\ \A i, j \in 1..Len(sample_idx) : i # j => sample_idx[i] # sample_idx[j]
          /\ num_eval_questions = Len(eval_questions) =>
                Range(sample_idx) = 1..Len(eval_questions)
    /\ error = "ValueError" => num_eval_questions > Len(eval_questions)
    /\ (pc \notin {"generate", "sample"} /\ error # "ValueError") => sample_count = 1

\* C6 witness: a sample as large as a two-question pool, drawn in reverse order.
C6_Witness ==
    /\ sample_count = 1
    /\ Len(eval_questions) = 2
    /\ num_eval_questions = 2
    /\ sample_idx = <<2, 1>>

\* The reranker answered with each input position exactly once.
ResultsArePermutation ==
    /\ Len(results) = Len(chunks)
    /\ {results[j].index : j \in 1..Len(results)} = 0..(Len(chunks) - 1)

\* The score the reranker gave to the candidate at 0-based position index.
ScoreGivenTo(index) ==
    (CHOOSE r \in Range(results) : r.index = index).relevance_score

\* C7: whatever order the reranker returns its results in, rerank_documents
\* returns one score per chunk with position i holding the score given to
\* chunk i, and the comparator's pair is (score without header, score with).
C7_ScoresInInputOrder ==
    (r_pc \in {"print", "returned"} /\ ResultsArePermutation) =>
        /\ Len(similarity_scores) = Len(chunks)
        /\ \A i \in 1..Len(chunks) : similarity_scores[i] = ScoreGivenTo(i - 1)
        /\ (r_pc = "returned" /\ r_caller = "compare") =>
              printed = <<ScoreGivenTo(0), ScoreGivenTo(1)>>

\* C7 witness: the comparator has printed its pair after the reranker returned
\* the two candidates in reverse order with different scores.
C7_Witness ==
    /\ r_pc = "returned"
    /\ r_caller = "compare"
    /\ Len(results) = 2
    /\ results[1].index = 1
    /\ results[2].index = 0
    /\ results[1].relevance_score # results[2].relevance_score

\* C8: a result set that is not a permutation of the input positions makes the
\* call fail: rerank_documents never returns scores for such a result set.
C8_UninvertibleResultsFailLoudly ==
    (r_pc \in {"print", "returned"}) => ResultsArePermutation

\* C9: a failure while building or evaluating one variant does not end the
\* session: the session is never left aborted by it, and once the session is
\* over the report has one entry per config.
C9_VariantFailureDoesNotAbortSession ==
    error \in VariantErrors =>
        /\ pc # "aborted"
        /\ pc = "done" => Len(report) = Len(chunk_sizes)

\* C10: the report holds one row per evaluated config, in the order of
\* chunk_sizes; a session that ends without error has a row for every config,
\* so two configs give exactly two rows.
C10_OneRowPerConfigInInputOrder ==
    /\ Len(report) <= Len(chunk_sizes)
    /\ \A i \in 1..Len(report) : report[i].chunk_size = chunk_sizes[i]
    /\ pc = "done" => Len(report) = Len(chunk_sizes)
    /\ (pc = "done" /\ Len(chunk_sizes) = 2) => Len(report) = 2

\* C10 witness: a finished two-config session whose first row has the lower
\* faithfulness and the higher latency and whose configs are in descending
\* order: the rows are ranked by no metric.
C10_Witness ==
    /\ pc = "done"
    /\ chunk_sizes = <<256, 128>>
    /\ Len(report) = 2
    /\ report[1].avg_faithfulness.num < report[2].avg_faithfulness.num
    /\ report[1].avg_response_time.num > report[2].avg_response_time.num

\* C11: for a run over N >= 1 questions the returned mean latency is the sum of
\* the N observed elapsed times over N, and each rate is the number of passing
\* verdicts observed for that metric over N.
C11_AveragesAreTotalsOverN ==
    /\ \A v \in 1..Len(report) :
          /\ Len(k_eval_questions) >= 1
          /\ Len(runs_log[v].asked) = Len(k_eval_questions)
          /\ report[v].avg_response_time =
                [num |-> runs_log[v].elapsed_sum, den |-> Len(k_eval_questions)]
          /\ report[v].avg_faithfulness =
                [num |-> runs_log[v].faithfulness_passes, den |-> Len(k_eval_questions)]
          /\ report[v].avg_relevancy =
                [num |-> runs_log[v].relevancy_passes, den |-> Len(k_eval_questions)]
    /\ pc = "print" =>
          /\ summary.average_response_time =
                [num |-> runs_log[loop_i].elapsed_sum, den |-> Len(k_eval_questions)]
          /\ summary.average_faithfulness =
                [num |-> runs_log[loop_i].faithfulness_passes, den |-> Len(k_eval_questions)]
          /\ summary.average_relevancy =
                [num |-> runs_log[loop_i].relevancy_passes, den |-> Len(k_eval_questions)]

\* C11 witness: a run over two questions returned with one passing faithfulness
\* verdict, no passing relevancy verdict and elapsed times 1 and 2.
C11_Witness ==
    /\ pc = "print"
    /\ Len(k_eval_questions) = 2
    /\ summary.average_response_time = [num |-> 3, den |-> 2]
    /\ summary.average_faithfulness = [num |-> 1, den |-> 2]
    /\ summary.average_relevancy = [num |-> 0, den |-> 2]

\* The kinds of event one question goes through, in the order of lines 345-355.
EventKinds == <<"start", "query", "elapsed", "faithfulness", "relevancy">>

\* C12: within a run the questions are processed one at a time in the order of
\* the frozen set and each goes through start, query, elapsed time, faithfulness
\* judge call, relevancy judge call in that order, so the events of a run are
\* always a prefix of that sequence (the query of the next question comes after
\* both judge calls of the current one); an earlier run has all its events
\* before a later run has any.
C12_EventsInFrozenOrder ==
    LET qs    == k_eval_questions
        kinds == Len(EventKinds)
        whole == kinds * Len(qs)
        runs  == Len(runs_log)
    IN  \A v \in 1..runs :
            LET events == runs_log[v].events
                done   == Len(events)
            IN  /\ done <= whole
                /\ v < runs => done = whole
                /\ \A n \in 1..done :
                      LET e == events[n]
                      IN  /\ e.kind = EventKinds[((n - 1) % kinds) + 1]
                          /\ e.question = qs[((n - 1) \div kinds) + 1]

\* C12 witness: the second run is between the two judge calls of its second
\* question, the frozen set holding two different questions.
C12_Witness ==
    /\ Len(runs_log) = 2
    /\ Len(k_eval_questions) = 2
    /\ k_eval_questions[1] # k_eval_questions[2]
    /\ pc = "relevancy"
    /\ Len(runs_log[2].events) = 9

C14_BuiltUnderOwnConfig ==
    \A i \in 1..Len(indices) :
        /\ indices[i].chunk_size = chunk_sizes[i]
        /\ indices[i].chunk_overlap = ChunkOverlap(chunk_sizes[i])

\* C14 witness: the second index of the sweep <<256, 128>> has been built.
C14_Witness ==
    /\ chunk_sizes = <<256, 128>>
    /\ Len(indices) = 2
    /\ pc = "for"

\* C15: when a run has returned, the global Settings are what they were when
\* the run was entered.
C15_RunLeavesSettingsUnchanged ==
    (pc \in {"print", "loop", "done"} /\ Len(runs_log) >= 1) =>
        Settings = runs_log[Len(runs_log)].settings_before

\* C16: every judge call of the session runs on the model configured at setup
\* (gpt-4o at temperature 0), and all calls of one metric run with the same
\* templates, whatever Settings.llm is at the time of the call.
C16_JudgeConfigFixed ==
    \A v \in 1..Len(runs_log), w \in 1..Len(runs_log) :
        \A j \in runs_log[v].judges :
            /\ j.llm = gpt4
            /\ \A k \in runs_log[w].judges : k.metric = j.metric => k = j

\* C16 witness: both judges have been called in the second run while
\* Settings.llm is the answer-generation model.
C16_Witness ==
    /\ Len(runs_log) = 2
    /\ pc = "accumulate"
    /\ Settings.llm = gpt35
    /\ {j.metric : j \in runs_log[1].judges} = {"faithfulness", "relevancy"}
    /\ {j.metric : j \in runs_log[2].judges} = {"faithfulness", "relevancy"}

\* C17: once the evaluators are set up, the faithfulness evaluator's template
\* is the custom one.
C17_CustomFaithfulnessTemplateInUse ==
    pc \notin {"generate", "sample", "setup"} =>
        faithfulness_gpt4.eval_template = faithfulness_new_prompt_template

\* Faithfulness and relevancy rates of a printed row.
Rates(row) == <<row.avg_faithfulness, row.avg_relevancy>>

\* C18: with deterministic collaborators, two variants of one session built
\* with the same chunk size get the same faithfulness and relevancy rates.
C18_SameConfigSameRates ==
    \A v \in 1..Len(report), w \in 1..Len(report) :
        chunk_sizes[v] = chunk_sizes[w] => Rates(report[v]) = Rates(report[w])

\* C18 witness: three variants of the same config were evaluated on two
\* questions, one of which passed faithfulness and none relevancy.
C18_Witness ==
    /\ pc = "done"
    /\ Len(report) = 3
    /\ Len(k_eval_questions) = 2
    /\ report[3].avg_faithfulness = [num |-> 1, den |-> 2]
    /\ report[3].avg_relevancy = [num |-> 0, den |-> 2]
    /\ memo.query # {}

\* C19: the frozen set is determined by the pool and the sample size: every
\* sample random.sample can return for them is the one it returned.
C19_SampleDeterminedByInputs ==
    sample_count = 1 =>
        \A idx \in RandomSamplePositions(Len(eval_questions), num_eval_questions) :
            [i \in 1..Len(idx) |-> eval_questions[idx[i]]] = k_eval_questions

\* C20: a question whose answer is the empty string has failed both metrics
\* when its verdicts are added to the totals.
C20_EmptyAnswerFailsBoth ==
    (pc = "accumulate" /\ response_vector.response = "") =>
        (~faithfulness_result /\ ~relevancy_result)

\* C21: a variant whose chunk size is not positive is rejected before any call
\* is made for it: once the loop has taken such a chunk size the session has
\* ended in an error, and no index build was started for it.
C21_NonPositiveChunkSizeRejected ==
    (loop_i >= 1 /\ chunk_sizes[loop_i] <= 0) =>
        /\ pc = "aborted"
        /\ calls.build < loop_i

\* C22: compare_chunk_similarities calls the reranker exactly once, with two
\* documents: the chunk text, then "Document Title: ", the title, a blank line
\* and the same chunk text; the two scores it prints are the first and second
\* entry of the list that call's results were reordered into, which for a
\* result naming each document once are the scores given to the raw and to the
\* header-prefixed candidate.
C22_ComparatorSingleCallTwoCandidates ==
    r_caller = "compare" =>
        /\ Len(rerank_calls) <= 1
        /\ r_pc \in {"reorder", "print", "returned", "raised"} =>
              /\ Len(rerank_calls) = 1
              /\ rerank_calls[1] = chunks
              /\ Len(chunks) = 2
              /\ \E chunk_text \in ChunkTexts, title \in DocumentTitles :
                    /\ chunks[1] = <<chunk_text>>
                    /\ chunks[2] = <<"Document Title: ", title, "\n\n", chunk_text>>
        /\ r_pc = "returned" =>
              /\ printed = <<similarity_scores[1], similarity_scores[2]>>
              /\ ResultsArePermutation =>
                    \A k \in 1..2 : printed[k] = ScoreGivenTo(k - 1)

\* C22 witness: the comparator printed two different scores after the reranker
\* answered with the header-prefixed candidate first.
C22_Witness ==
    /\ r_caller = "compare"
    /\ r_pc = "returned"
    /\ Len(rerank_calls) = 1
    /\ Len(results) = 2
    /\ results[1].index = 1
    /\ results[2].index = 0
    /\ printed[1] # printed[2]

\* C23: the latency of a question is the duration of its query alone: from
\* the first judge call of a question until its values are added to the totals
\* elapsed_time is that duration, however far the clock has moved on; the
\* total is the sum of the query durations of the run, and so is the numerator
\* of every printed mean latency.  Build time and judge time are in none of
\* them.
C23_LatencyIsQueryTimeOnly ==
    /\ pc \in {"faithfulness", "relevancy", "accumulate"} =>
          /\ elapsed_time \in ElapsedTimes
          /\ total_response_time + elapsed_time = runs_log[Len(runs_log)].elapsed_sum
    /\ (pc = "for" /\ Len(runs_log) >= 1) =>
          total_response_time = runs_log[Len(runs_log)].elapsed_sum
    /\ \A v \in 1..Len(report) :
          report[v].avg_response_time.num = runs_log[v].elapsed_sum

\* C23 witness: the second run is about to add the values of its second
\* question; since that question's query started, the clock has advanced by
\* more than the query took, and the index builds and judge calls of the
\* session have taken more time than all its queries.
C23_Witness ==
    /\ pc = "accumulate"
    /\ Len(runs_log) = 2
    /\ qi = 2
    /\ now - start_time > elapsed_time
    /\ now > 2 * (runs_log[1].elapsed_sum + runs_log[2].elapsed_sum)

\* C24: the frozen question set and the corpus are the same at every point of
\* the session as when each run was entered, the first included: no run
\* changes their content or order.
C24_SharedInputsUnmodified ==
    /\ \A v \in 1..Len(runs_log) :
          /\ runs_log[v].questions = k_eval_questions
          /\ runs_log[v].documents = eval_documents
    /\ eval_documents = Corpus
    /\ sample_count = 1 =>
          k_eval_questions = [i \in 1..Len(sample_idx) |-> eval_questions[sample_idx[i]]]

\* C24 witness: two variants have been built from the corpus and evaluated on
\* a frozen set of two different questions.
C24_Witness ==
    /\ pc = "done"
    /\ Len(runs_log) = 2
    /\ calls.build = 2
    /\ calls.query = 4
    /\ k_eval_questions = <<"q2", "q1">>

\* C25: while a run goes on without error, after j questions have been
\* processed the run has made exactly j queries, j faithfulness and j relevancy
\* judge calls and its pass totals lie between 0 and j; during question j + 1
\* the calls made so far are j + 1 or j according to the position reached; a
\* finished run has made N queries and 2N judge calls.
C25_CallCountsPerQuestion ==
    LET N == Len(k_eval_questions)
        before == (loop_i - 1) * N
    IN /\ (error = "none" /\ pc \in {"for", "faithfulness", "relevancy", "accumulate"}) =>
             /\ calls.query = before + qi
             /\ calls.faithfulness =
                   before + (IF pc = "faithfulness" THEN qi - 1 ELSE qi)
             /\ calls.relevancy =
                   before + (IF pc \in {"faithfulness", "relevancy"} THEN qi - 1 ELSE qi)
             /\ 0 <= total_faithfulness /\ total_faithfulness <= qi
             /\ 0 <= total_relevancy /\ total_relevancy <= qi
             /\ pc = "for" =>
                   /\ total_faithfulness <= calls.faithfulness - before
                   /\ total_relevancy <= calls.relevancy - before
       /\ (error = "none" /\ pc \in {"print", "loop", "done"}) =>
             /\ calls.query = loop_i * N
             /\ calls.faithfulness + calls.relevancy = 2 * loop_i * N
             /\ calls.build = loop_i

\* C25 witness: the second run over two questions has processed both of them,
\* one passing faithfulness and both passing relevancy.
C25_Witness ==
    /\ pc = "for"
    /\ loop_i = 2
    /\ qi = 2
    /\ Len(k_eval_questions) = 2
    /\ calls.query = 4
    /\ total_faithfulness = 1
    /\ total_relevancy = 2

\* C26: the question pool is generated and sampled once, before any run is
\* entered, and never again; the runs are entered in the order of chunk_sizes;
\* and when a run is entered every earlier run has built its index, processed
\* all its questions through both judge calls and had its row printed.
C26_SessionOrder ==
    /\ calls.qgen <= 1
    /\ sample_count <= 1
    /\ Len(runs_log) >= 1 => (calls.qgen = 1 /\ sample_count = 1)
    /\ Len(runs_log) = loop_i
    /\ Len(indices) <= Len(runs_log)
    /\ Len(indices) = calls.build \/ (pc = "aborted" /\ Len(indices) + 1 = calls.build)
    /\ \A v \in 1..Len(runs_log) :
          /\ v <= Len(indices) => indices[v].chunk_size = chunk_sizes[v]
          /\ v < Len(runs_log) =>
                /\ v <= Len(indices)
                /\ Len(runs_log[v].asked) = Len(k_eval_questions)
                /\ Len(runs_log[v].events) = Len(EventKinds) * Len(k_eval_questions)
                /\ v <= Len(report)
                /\ report[v].chunk_size = chunk_sizes[v]
          /\ (v = Len(runs_log) /\ Len(indices) < v) => runs_log[v].asked = <<>>

\* C26 witness: the second variant's index is about to be built after the
\* first variant asked its two questions and had its row printed.
C26_Witness ==
    /\ pc = "build"
    /\ loop_i = 2
    /\ Len(indices) = 1
    /\ Len(report) = 1
    /\ Len(runs_log[1].asked) = 2
    /\ calls.qgen = 1

\* C27: when the session has reached its final state, by exhausting the sweep
\* or by the failure of a variant, every config has a row in the report (a
\* summary or a failure entry).
C27_EndsWithEveryConfigAccounted ==
    (pc = "done" \/ (pc = "aborted" /\ error \in VariantErrors)) =>
        Len(report) = Len(chunk_sizes)

\* C28: a run over an empty question set never returns a summary: it builds
\* its index, makes no query and no judge call, and ends in ZeroDivisionError
\* when the averages are computed; ZeroDivisionError happens in no other run.
C28_EmptyQuestionSetDividesByZero ==
    /\ (Len(runs_log) >= 1 /\ Len(k_eval_questions) = 0) =>
          /\ pc \in {"build", "for", "aborted"}
          /\ pc = "aborted" => error \in {"IndexBuildError", "ZeroDivisionError"}
          /\ report = <<>>
          /\ summary = NoSummary
          /\ calls.query = 0 /\ calls.faithfulness = 0 /\ calls.relevancy = 0
    /\ error = "ZeroDivisionError" =>
          /\ Len(k_eval_questions) = 0
          /\ loop_i = 1
          /\ calls.build = 1
          /\ Len(indices) = 1

\* C28 witness: the first run of a two-config sweep over an empty question set
\* has ended in ZeroDivisionError after its index was built.
C28_Witness ==
    /\ error = "ZeroDivisionError"
    /\ pc = "aborted"
    /\ Len(chunk_sizes) = 2
    /\ num_questions = 0
    /\ Len(indices) = 1
    /\ TotalCalls(calls) = 2

\* C29: the overlap a variant is built with is floor(chunk_size / 5): for
\* every chunk size >= 1 it is at least 0 and less than the chunk size, it is 0
\* for the chunk sizes 1..4, and two variants of the same chunk size have the
\* same overlap; the same holds of the overlap in the global Settings while a
\* run is under way.
C29_OverlapIsFloorOfFifth ==
    /\ \A i \in 1..Len(indices) :
          LET c == indices[i].chunk_size
              o == indices[i].chunk_overlap
          IN c >= 1 =>
                /\ 5 * o <= c /\ c < 5 * (o + 1)
                /\ 0 <= o /\ o < c
                /\ c \in 1..4 => o = 0
                /\ \A j \in 1..Len(indices) :
                      indices[j].chunk_size = c => indices[j].chunk_overlap = o
    /\ (loop_i >= 1 /\ Settings.chunk_size >= 1) =>
          /\ Settings.chunk_size = chunk_sizes[loop_i]
          /\ 5 * Settings.chunk_overlap <= Settings.chunk_size
          /\ Settings.chunk_size < 5 * (Settings.chunk_overlap + 1)

\* C29 witness: two variants of chunk size 9 have been built, each with
\* overlap 1.
C29_Witness ==
    /\ pc = "done"
    /\ Len(indices) = 2
    /\ indices[1] = [chunk_size |-> 9, chunk_overlap |-> 1]
    /\ indices[2] = [chunk_size |-> 9, chunk_overlap |-> 1]

\* C30: truncate_content returns the text of the first min(len(tokens),
\* max_tokens) tokens of the document and that count, and the prompt of
\* get_document_title carries the truncation notice exactly when the document
\* has more than MAX_CONTENT_TOKENS tokens.
C30_TruncationNoticeIffTruncated ==
    LET tokens == Encode(content)
        kept == Min(Len(tokens), MAX_CONTENT_TOKENS)
    IN /\ t_pc \notin {"idle", "truncate"} =>
             /\ num_tokens = kept
             /\ document_text = Decode(SubSeq(tokens, 1, kept))
       /\ t_pc \notin {"idle", "truncate", "message"} =>
             (truncation_message # "" <=> Len(tokens) > MAX_CONTENT_TOKENS)

====
